---- MODULE Spec2Model ----
(***************************************************************************)
(* A model of the UK news scraper: the shared utilities of scraper.py      *)
(* (polite_get, parse_date, strip_html), the e-mail digest composer        *)
(* get_html_email_body, and the three run loops that call the four source  *)
(* adapters: scraper.main, run_for_n8n.main and scraper_server.run_scraper.*)
(*                                                                         *)
(* A Python string is modelled as a sequence of pieces (TLA+ strings); the *)
(* string it stands for is the concatenation of its pieces.  Date strings  *)
(* are sequences of single characters, so that slicing and formatting are  *)
(* computed character by character.                                        *)
(***************************************************************************)
EXTENDS Integers, Sequences, FiniteSets, TLC

VARIABLES
    \* ---- the run loops (scraper.main, run_for_n8n.main, run_scraper)
    prog,           \* which entry point is running
    hour,           \* London wall-clock hour read at the start of the run
    pc,             \* "loop" | "adapter" | "done"
    idx,            \* position in the scrapers list (1..4, 5 = loop over)
    all_articles,   \* the combined list
    articles,       \* the running adapter's local list
    entries,        \* the running adapter's feed / API listing
    pos,            \* number of entries the running adapter has processed
    results,        \* per adapter: what its call produced (history)
    calls,          \* the adapters called so far, in call order (history)
    loop_delays,    \* delay() calls made by the run loop itself
    exit_code,      \* run_for_n8n.main: argument of sys.exit, -1 before
    stdout,         \* run_for_n8n.main: the lines printed to stdout
    stderr,         \* run_for_n8n.main: the lines printed to stderr
    outcome,        \* "running", or how the entry point ended
    envelope,       \* the envelope printed / returned (a sequence of 0 or 1)
    files,          \* the files written: path -> number of articles
    \* ---- get_html_email_body
    em_articles, em_label, em_out, em_pc,
    \* ---- polite_get
    pg_url, pg_net, pg_pc, pg_requests, pg_ret, pg_raised, pg_log,
    \* ---- parse_date
    pd_raw, pd_pc, pd_ret, pd_raised, pd_again,
    \* ---- the author extractors (_bbc/_independent/_sky_get_author)
    au_src, au_resp, au_page, au_pc, au_ret,
    \* ---- one call of a source adapter, step by step
    ad_src,         \* the adapter's source
    ad_pc,          \* "start" | "entry" | "resolved" | "delayed" | "appended" | "done"
    ad_entries,     \* the feed entries / API results it iterates
    ad_pos,         \* entries fully processed
    ad_author,      \* the author resolved for the entry in hand
    ad_articles,    \* its local list
    ad_trace,       \* the requests and delays it made, in order (history)
    ad_ret,         \* the list it returned
    ad_raised,      \* the exception that escaped it ("" = none)
    \* ---- the HTTP server (scraper_server.py)
    sv_sent,        \* number of GET requests the clients have sent
    sv_backlog,     \* the requests waiting to be accepted, oldest first
    sv_handlers,    \* the requests being handled: id -> the handler's state
    sv_log,         \* the requests whose handling is over, in that order
    sv_last_list    \* the all_articles list of the latest run that ended

runVars == <<prog, hour, pc, idx, all_articles, articles, entries, pos, results,
             calls, loop_delays, exit_code, stdout, stderr, outcome, envelope, files>>
emVars  == <<em_articles, em_label, em_out, em_pc>>
pgVars  == <<pg_url, pg_net, pg_pc, pg_requests, pg_ret, pg_raised, pg_log>>
pdVars  == <<pd_raw, pd_pc, pd_ret, pd_raised, pd_again>>
auVars  == <<au_src, au_resp, au_page, au_pc, au_ret>>
adVars  == <<ad_src, ad_pc, ad_entries, ad_pos, ad_author, ad_articles, ad_trace,
             ad_ret, ad_raised>>
svVars  == <<sv_sent, sv_backlog, sv_handlers, sv_log, sv_last_list>>
vars    == <<runVars, emVars, pgVars, pdVars, auVars, adVars, svVars>>

(***************************************************************************)
(* Bounds of the model.                                                    *)
(***************************************************************************)
\* A feed lists 0..MaxEntries entries, or one more than the digest's cap.
MaxEntries == 2
\* Length of the freely ordered part of a composer input.
MaxMix == 3

(***************************************************************************)
(* Sequence helpers.                                                       *)
(***************************************************************************)
Range(s) == { s[i] : i \in DOMAIN s }

Min(a, b) == IF a <= b THEN a ELSE b

\* s[:n]
Take(s, n) == SubSeq(s, 1, Min(Len(s), n))

RECURSIVE Flatten(_)
Flatten(ss) == IF ss = <<>> THEN <<>> ELSE Head(ss) \o Flatten(Tail(ss))

RECURSIVE SeqSum(_)
SeqSum(ns) == IF ns = <<>> THEN 0 ELSE Head(ns) + SeqSum(Tail(ns))

\* number of positions of s that hold x
Count(s, x) == Cardinality({ i \in DOMAIN s : s[i] = x })

(***************************************************************************)
(* Characters and numbers: strftime's zero-padded fields.                  *)
(***************************************************************************)
Digits == <<"0", "1", "2", "3", "4", "5", "6", "7", "8", "9">>

Pad2(n) == << Digits[(n \div 10) + 1], Digits[(n % 10) + 1] >>

Pad4(n) == << Digits[(n \div 1000) + 1], Digits[((n \div 100) % 10) + 1],
              Digits[((n \div 10) % 10) + 1], Digits[(n % 10) + 1] >>

(***************************************************************************)
(* polite_get (scraper.py 69-83).                                          *)
(*                                                                         *)
(* A url is None or a string; what the network does with one GET is an     *)
(* input: a response with a status code, or an exception of requests.      *)
(***************************************************************************)
NoneUrl == [isNone |-> TRUE, text |-> <<>>]

StrUrl(t) == [isNone |-> FALSE, text |-> t]

Urls == { NoneUrl, StrUrl(<<>>), StrUrl(<<"https://example.com/a">>),
          StrUrl(<<"https://example.com/b">>) }

Statuses == { 200, 201, 204, 301, 304, 400, 401, 403, 404, 429, 500, 502, 503 }

\* exceptions requests.get can raise; all are RequestException subclasses
TransportErrors == { "Timeout", "ConnectionError", "TooManyRedirects", "RequestException" }

NetOutcomes == { [kind |-> "response", status |-> c] : c \in Statuses }
               \cup { [kind |-> e, status |-> 0] : e \in TransportErrors }

\* `not url`
Falsy(url) == url.isNone \/ url.text = <<>>

\* Response.raise_for_status: HTTPError for 4xx and 5xx
raise_for_status(status) == status >= 400 /\ status < 600

\* what the try block of polite_get raises for a network outcome ("" = nothing)
RaisedInTry(net) ==
    IF net.kind # "response" THEN net.kind
    ELSE IF raise_for_status(net.status) THEN "HTTPError" ELSE ""

\* the except clauses of polite_get, missing the RequestException base class
polite_get_catches_no_base(exc) == exc \in { "Timeout", "HTTPError" }

\* the except clauses of polite_get (77-82): Timeout, HTTPError, and every
\* other RequestException
polite_get_catches(exc) ==
    exc \in { "Timeout", "HTTPError" } \/ exc \in TransportErrors

\* the value polite_get returns / the exception it lets escape, once the
\* request has been issued
polite_get_after_request(net) ==
    LET exc == RaisedInTry(net) IN
    IF exc = "" THEN [raised |-> "", resp |-> << net.status >>, log |-> <<>>]
    ELSE IF polite_get_catches(exc)
         THEN [raised |-> "", resp |-> <<>>, log |-> << exc >>]
         ELSE [raised |-> exc, resp |-> <<>>, log |-> <<>>]

(***************************************************************************)
(* parse_date (scraper.py 86-96).                                          *)
(*                                                                         *)
(* The raw date strings of the model are the texts of a bounded family of  *)
(* descriptions (a format and its fields), plus a few texts that are no    *)
(* date.  dateutil's parser is modelled on that family: it recovers the    *)
(* fields of the description whose text it is given, and fails when there  *)
(* is none or when a field is out of range.                                *)
(***************************************************************************)
Years   == { 2026 }
Months  == { 2, 13 }
Days    == { 19 }
HoursOfDay == { 9, 23 }
Minutes == { 0 }
Seconds == { 0, 59 }

\* timezone suffixes: text and offset in minutes ("none": naive)
IsoZones == { [text |-> <<"Z">>, off |-> 0, aware |-> TRUE],
              [text |-> <<"+", "0", "1", ":", "0", "0">>, off |-> 60, aware |-> TRUE],
              [text |-> <<"-", "0", "5", ":", "0", "0">>, off |-> -300, aware |-> TRUE],
              [text |-> <<>>, off |-> 0, aware |-> FALSE] }

RfcZones == { [text |-> <<" ", "G", "M", "T">>, off |-> 0, aware |-> TRUE],
              [text |-> <<" ", "+", "0", "1", "0", "0">>, off |-> 60, aware |-> TRUE] }

MonthAbbr(m) == IF m = 2 THEN <<"F", "e", "b">> ELSE <<"?", "?", "?">>

DateFields == [y : Years, mo : Months, d : Days, h : HoursOfDay, mi : Minutes, s : Seconds]

DateDescs ==
    { [fmt |-> "iso", f |-> f, sep |-> sep, tz |-> z] :
        f \in DateFields, sep \in { "T", " " }, z \in IsoZones }
    \cup { [fmt |-> "rfc822", f |-> f, sep |-> " ", tz |-> z] :
        f \in { g \in DateFields : g.mo \in 1..12 }, z \in RfcZones }
    \cup { [fmt |-> "dateonly", f |-> f, sep |-> "", tz |-> CHOOSE z \in IsoZones : ~z.aware] :
        f \in { g \in DateFields : g.h = 9 /\ g.s = 0 } }

\* the text of a description
DateText(dd) ==
    LET f == dd.f IN
    CASE dd.fmt = "iso" ->
            Pad4(f.y) \o <<"-">> \o Pad2(f.mo) \o <<"-">> \o Pad2(f.d) \o << dd.sep >>
            \o Pad2(f.h) \o <<":">> \o Pad2(f.mi) \o <<":">> \o Pad2(f.s) \o dd.tz.text
      [] dd.fmt = "rfc822" ->
            <<"T", "h", "u", ",", " ">> \o Pad2(f.d) \o <<" ">> \o MonthAbbr(f.mo) \o <<" ">>
            \o Pad4(f.y) \o <<" ">> \o Pad2(f.h) \o <<":">> \o Pad2(f.mi) \o <<":">>
            \o Pad2(f.s) \o dd.tz.text
      [] OTHER ->
            Pad4(f.y) \o <<"-">> \o Pad2(f.mo) \o <<"-">> \o Pad2(f.d)

\* texts that are no date
JunkDates == { <<"n", "o", "t", "-", "a", "-", "d", "a", "t", "e">>,
               <<"x", "y", "z">>,
               <<"2", "0", "2", "6", "-", "x", "x", "-", "1", "9", "T", "0", "9", ":",
                 "0", "0", ":", "0", "0", "Z">> }

RawDates == { <<>> } \cup JunkDates \cup { DateText(dd) : dd \in DateDescs }

\* datetime's own range check of the parsed fields
ValidFields(f) ==
    /\ f.mo \in 1..12 /\ f.d \in 1..(IF f.mo = 2 THEN 28 ELSE 30)
    /\ f.h \in 0..23 /\ f.mi \in 0..59 /\ f.s \in 0..59

\* dateutil.parser.parse: the datetime (fields, tzinfo) or an exception.
\* A date-only text gets midnight; the offset is kept as tzinfo, the
\* wall-clock fields are not shifted.
dateparser_parse(raw) ==
    LET ds == { dd \in DateDescs : DateText(dd) = raw } IN
    IF ds = {} THEN [raised |-> TRUE, f |-> <<>>, aware |-> FALSE, off |-> 0]
    ELSE LET dd == CHOOSE x \in ds : TRUE
             f  == IF dd.fmt = "dateonly"
                   THEN [dd.f EXCEPT !.h = 0, !.mi = 0, !.s = 0] ELSE dd.f
         IN IF ~ValidFields(f)
            THEN [raised |-> TRUE, f |-> <<>>, aware |-> FALSE, off |-> 0]
            ELSE [raised |-> FALSE, f |-> f, aware |-> dd.tz.aware, off |-> dd.tz.off]

\* dt.strftime("%Y-%m-%dT%H:%M:%SZ"): the datetime's own wall-clock fields
\* followed by a literal Z
strftime(f) ==
    Pad4(f.y) \o <<"-">> \o Pad2(f.mo) \o <<"-">> \o Pad2(f.d) \o <<"T">>
    \o Pad2(f.h) \o <<":">> \o Pad2(f.mi) \o <<":">> \o Pad2(f.s) \o <<"Z">>

\* parse_date without its try/except: the parser's exception propagates
parse_date_no_except(raw) ==
    IF raw = <<>> THEN [raised |-> FALSE, value |-> <<>>]
    ELSE LET dt == dateparser_parse(raw) IN
         IF dt.raised THEN [raised |-> TRUE, value |-> <<>>]
         ELSE [raised |-> FALSE, value |-> strftime(dt.f)]

\* parse_date: "" for "", the formatted datetime when the parser succeeds
\* (a naive one is first given tzinfo UTC, which changes no field), and the
\* raw string when the parser raises
parse_date_result(raw) ==
    IF raw = <<>> THEN [raised |-> FALSE, value |-> <<>>]
    ELSE LET dt == dateparser_parse(raw) IN
         IF dt.raised THEN [raised |-> FALSE, value |-> raw]
         ELSE [raised |-> FALSE, value |-> strftime(dt.f)]

parse_date(raw) == parse_date_result(raw).value

(***************************************************************************)
(* Text helpers: str.strip and strip_html (scraper.py 113-117).            *)
(***************************************************************************)
Whitespace == { " ", "\n" }

RECURSIVE LStrip(_)
LStrip(t) == IF t # <<>> /\ Head(t) \in Whitespace THEN LStrip(Tail(t)) ELSE t

RECURSIVE RStrip(_)
RStrip(t) ==
    IF t # <<>> /\ t[Len(t)] \in Whitespace THEN RStrip(SubSeq(t, 1, Len(t) - 1)) ELSE t

\* str.strip()
Strip(t) == RStrip(LStrip(t))

\* the markup pieces a feed summary carries
Tags == { "<p>", "</p>", "<b>", "</b>" }

\* BeautifulSoup(raw, "lxml").get_text(strip=True): the text nodes, each
\* stripped, joined; "" for ""
strip_html(raw) ==
    IF raw = <<>> THEN <<>>
    ELSE SelectSeq(raw, LAMBDA piece : piece \notin Tags /\ piece \notin Whitespace)

(***************************************************************************)
(* Article (scraper.py 56-63) and the entries of a listing.                *)
(***************************************************************************)
Article(source, title, url, summary, author, published_date) ==
    [source |-> source, title |-> title, url |-> url, summary |-> summary,
     author |-> author, published_date |-> published_date]

\* the digest keeps at most this many articles of a source: by_source[source][:10]
TopN == 10

\* the fixed order of the adapters and of the digest's blocks
source_order == <<"BBC News", "The Guardian", "The Independent", "Sky News">>

(***************************************************************************)
(* get_html_email_body (scraper.py 567-676).                               *)
(*                                                                         *)
(* The fragment is a sequence of pieces: the template's own text, cut at   *)
(* the interpolated fields, and the fields' pieces in between.             *)
(***************************************************************************)
\* by_source: the articles of one source, in incoming order (582-584)
by_source(arts, source) == SelectSeq(arts, LAMBDA a : a.source = source)

\* the keys of by_source in insertion order: each source at its first article
RECURSIVE by_source_keys(_)
by_source_keys(arts) ==
    IF arts = <<>> THEN <<>>
    ELSE LET init == by_source_keys(SubSeq(arts, 1, Len(arts) - 1))
             s    == arts[Len(arts)].source
         IN IF s \in Range(init) THEN init ELSE Append(init, s)

\* ordered_sources with the preference list ignored: dict order only
ordered_sources_dict_order(arts) == by_source_keys(arts)

\* ordered_sources (586-589): the known sources present, in source_order,
\* then every other key of by_source in insertion order
ordered_sources(arts) ==
    SelectSeq(source_order, LAMBDA s : s \in Range(by_source_keys(arts)))
    \o SelectSeq(by_source_keys(arts), LAMBDA s : s \notin Range(source_order))

\* top10 cut one too late
top10_off_by_one(arts, source) == Take(by_source(arts, source), TopN + 1)

\* top10 = by_source[source][:10] (603)
top10(arts, source) == Take(by_source(arts, source), TopN)

\* source_colours.get(source, "#333333") (592-602)
source_colour(source) ==
    CASE source = "BBC News"        -> "#bb1919"
      [] source = "The Guardian"    -> "#052962"
      [] source = "The Independent" -> "#e8173d"
      [] source = "Sky News"        -> "#003e7e"
      [] OTHER                      -> "#333333"

\* template pieces that open and close the interpolated fields
RowOpen     == "<tr><td style=padding:10px 12px;background:"
HrefOpen    == ";width:42%;><a href="
TitleOpen   == ";text-decoration:none;font-weight:600; target=_blank>"
TitleClose  == "</a></td><td style=padding:10px 12px;font-size:12px;background:"
SummaryOpen == ";color:#555;>"
SummaryClose == "</td><td style=padding:10px 12px;font-size:11px;background:"
AuthorOpen  == ";color:#888;white-space:nowrap;>"
RowClose    == "</td></tr>"
SectionOpen == "<tr><td colspan=3 style=padding:18px 12px 6px;><div style=border-left:4px solid "
SectionName == ";><span style=font-size:15px;font-weight:700;color:"
SectionCount == "</span><span style=font-size:11px;color:#999;margin-left:8px;>"
SectionClose == " articles</span></div></td></tr>"
SectionSpacer == "<tr><td colspan=3 style=padding:8px;background:#ffffff;></td></tr>"

\* one <tr> of rows_html (606-619); i is enumerate's index
row_html(a, i, colour) ==
    LET bg == IF i % 2 = 0 THEN "#ffffff" ELSE "#f7f9fc" IN
    << RowOpen, bg, HrefOpen >> \o a.url \o << " style=color:", colour, TitleOpen >>
    \o a.title
    \o << TitleClose, bg, SummaryOpen >> \o a.summary
    \o << SummaryClose, bg, AuthorOpen >>
    \o (IF a.author # <<>> THEN a.author ELSE << "EMDASH" >>)
    \o << "<br>" >>
    \o (IF a.published_date # <<>> THEN Take(a.published_date, 10) ELSE <<>>)
    \o << RowClose >>

rows_html(top, colour) ==
    Flatten([ i \in 1..Len(top) |-> row_html(top[i], i - 1, colour) ])

\* one block of sections_html (601-631): header with the count, rows, spacer
section_html(arts, source) ==
    LET colour == source_colour(source)
        top    == top10(arts, source)
    IN << SectionOpen, colour, SectionName, colour, ";>", source, SectionCount,
          ToString(Len(top)), SectionClose >>
       \o rows_html(top, colour)
       \o << SectionSpacer >>

sections_html(arts) ==
    LET order == ordered_sources(arts) IN
    Flatten([ k \in 1..Len(order) |-> section_html(arts, order[k]) ])

\* the fragment (633-676); generated_at is the clock's text
get_html_email_body(arts, session_label, generated_at) ==
    LET label_text == IF session_label # <<>> THEN << " - " >> \o session_label ELSE <<>> IN
    << "<div style=font-family:Arial,Helvetica,sans-serif;max-width:700px;>",
       "<table style=background:#0d1b2a;><tr><td style=padding:20px 24px;>",
       "<div style=font-size:22px;font-weight:700;color:#ffffff;>UK News Digest" >>
    \o label_text
    \o << "</div><div style=font-size:12px;color:#aab4c0;margin-top:4px;>" >>
    \o generated_at
    \o << "</div></td></tr></table>",
          "<table style=background:#ffffff;border:1px solid #e0e0e0;>",
          "<tr style=background:#f5f5f5;><th style=width:42%;>Title</th><th>Summary</th><th style=width:14%;>Author / Date</th></tr>" >>
    \o sections_html(arts)
    \o << "</table>",
          "<table style=margin-top:12px;><tr><td style=text-align:center;>Delivered by UK News Scraper</td></tr></table>",
          "</div>" >>

(***************************************************************************)
(* The listings the adapters read.  Entry k of a listing carries its own   *)
(* title and summary; links repeat with period TopN, so a listing of       *)
(* TopN + 1 entries ends with the link it began with, and listings of      *)
(* different sources share links.                                          *)
(***************************************************************************)
FeedPublished ==
    <<"T", "h", "u", ",", " ", "1", "9", " ", "F", "e", "b", " ", "2", "0", "2", "6", " ",
      "0", "9", ":", "0", "0", ":", "0", "0", " ", "G", "M", "T">>

Entry(k) ==
    [title     |-> << " ", "Headline ", ToString(k), " " >>,
     link      |-> << "https://example.com/", ToString(((k - 1) % TopN) + 1) >>,
     summary   |-> << "<p>", "Summary ", ToString(k), "</p>" >>,
     author    |-> << "Author ", ToString(k) >>,
     published |-> FeedPublished]

Listing(n) == [ k \in 1..n |-> Entry(k) ]

FeedSizes == (0..MaxEntries) \cup { TopN + 1 }

\* the Article an adapter builds from an entry (scrape_bbc 157-172,
\* scrape_guardian 215-223, scrape_independent 267-285, scrape_sky_news
\* 328-346); the author is the byline as resolved
make_article(source, e) ==
    Article(source, Strip(e.title), Strip(e.link), strip_html(e.summary),
            Strip(e.author), parse_date(e.published))

(***************************************************************************)
(* The run loops.                                                          *)
(***************************************************************************)
Progs == { "scraper.main", "run_for_n8n.main", "scraper_server.run_scraper" }

\* the scrapers list of each entry point: the adapters' names, in order
scrapers == source_order

ClockHours == { 11, 12 }

\* get_session (run_for_n8n.py 46-47), and run_scraper 41
get_session(h) == IF h < 12 THEN "Morning Briefing" ELSE "Evening Roundup"

\* build_subject (run_for_n8n.py 50-52), and run_scraper 42-43
build_subject(session) == << "UK News ", session, " - ", "Mon 02 Nov 2026" >>

\* save_html_digest's file name (run_for_n8n.py 58-60), and run_scraper 69-71
digest_path(session) ==
    << "output/digests/2026-11-02_", IF session = "Morning Briefing" THEN "morning" ELSE "evening",
       ".html" >>

GeneratedAt == << "02 November 2026, 13:00 UTC" >>

NoDataError == "RuntimeError: No articles collected from any source"

\* an envelope whose "articles" counts the rows of the digest
Envelope_counting_rows(arts, session) ==
    [subject   |-> build_subject(session),
     htmlBody  |-> get_html_email_body(arts, << session >>, GeneratedAt),
     session   |-> session,
     articles  |-> Len(Flatten([ i \in DOMAIN ordered_sources(arts) |->
                                   top10(arts, ordered_sources(arts)[i]) ])),
     savedFile |-> digest_path(session)]

\* the envelope of run_for_n8n.main (94-100) and run_scraper (76-82)
Envelope(arts, session) ==
    [subject   |-> build_subject(session),
     htmlBody  |-> get_html_email_body(arts, << session >>, GeneratedAt),
     session   |-> session,
     articles  |-> Len(arts),
     savedFile |-> digest_path(session)]

Pending == [st |-> "pending", list |-> <<>>]

RunInit ==
    /\ prog \in Progs
    /\ hour \in (IF prog = "scraper.main" THEN { -1 } ELSE ClockHours)
    /\ pc = "loop"
    /\ idx = 1
    /\ all_articles = <<>>
    /\ articles = <<>>
    /\ entries = <<>>
    /\ pos = 0
    /\ results = [ i \in 1..Len(scrapers) |-> Pending ]
    /\ calls = <<>>
    /\ loop_delays = 0
    /\ exit_code = -1
    /\ stdout = <<>>
    /\ stderr = <<>>
    /\ outcome = "running"
    /\ envelope = <<>>
    /\ files = <<>>

\* all_articles = results: the combined list replaced instead of extended
extend_overwrite(all, res) == res

\* all_articles.extend(results), with articles of a link already held dropped
extend_dedup(all, res) ==
    all \o SelectSeq(res, LAMBDA a : \A j \in DOMAIN all : all[j].url # a.url)

\* all_articles.extend(results)
extend(all, res) == all \o res

\* the list the loop keeps when fn() raises after building some articles,
\* were the articles built so far not lost with the adapter's frame
after_raise_keep_partial(all, partial) == all \o partial

\* the except clause of the loops: all_articles is left as it was
after_raise(all, partial) == all

\* a run is fatal when `not all_articles`, never
no_articles_never(all) == FALSE

\* `if not all_articles` (run_for_n8n.py 86, scraper_server.py 61)
no_articles(all) == all = <<>>

\* fn() is called: the adapter fetches its listing
CallAdapter ==
    /\ pc = "loop" /\ idx <= Len(scrapers)
    /\ \E n \in FeedSizes : entries' = Listing(n)
    /\ calls' = Append(calls, scrapers[idx])
    /\ articles' = <<>>
    /\ pos' = 0
    /\ pc' = "adapter"
    /\ UNCHANGED <<prog, hour, idx, all_articles, results, loop_delays, exit_code,
                   stdout, stderr, outcome, envelope, files>>
    /\ UNCHANGED <<emVars, pgVars, pdVars, auVars, adVars, svVars>>

\* one iteration of the adapter's loop over its entries
AdapterEntry ==
    /\ pc = "adapter" /\ pos < Len(entries)
    /\ articles' = Append(articles, make_article(scrapers[idx], entries[pos + 1]))
    /\ pos' = pos + 1
    /\ UNCHANGED <<prog, hour, pc, idx, all_articles, entries, results, calls,
                   loop_delays, exit_code, stdout, stderr, outcome, envelope, files>>
    /\ UNCHANGED <<emVars, pgVars, pdVars, auVars, adVars, svVars>>

\* what follows the try/except of one loop iteration: scraper.main's delay()
AfterAdapter ==
    /\ idx' = idx + 1
    /\ pc' = "loop"
    /\ articles' = <<>>
    /\ entries' = <<>>
    /\ pos' = 0
    /\ loop_delays' = IF prog = "scraper.main" THEN loop_delays + 1 ELSE loop_delays

\* the adapter returns its list: results = fn(); all_articles.extend(results)
AdapterReturn ==
    /\ pc = "adapter" /\ pos = Len(entries)
    /\ all_articles' = extend(all_articles, articles)
    /\ results' = [results EXCEPT ![idx] = [st |-> "returned", list |-> articles]]
    /\ AfterAdapter
    /\ UNCHANGED <<prog, hour, calls, exit_code, stdout, stderr, outcome, envelope, files>>
    /\ UNCHANGED <<emVars, pgVars, pdVars, auVars, adVars, svVars>>

\* the adapter raises, while fetching its listing or while building the
\* article of an entry: the loop's except clause reports it and goes on
AdapterRaise ==
    /\ pc = "adapter" /\ (pos = 0 \/ pos < Len(entries))
    /\ all_articles' = after_raise(all_articles, articles)
    /\ results' = [results EXCEPT ![idx] = [st |-> "raised", list |-> Take(articles, 1)]]
    /\ stderr' = IF prog = "run_for_n8n.main"
                 THEN Append(stderr, << "[WARN] ", scrapers[idx], " failed" >>)
                 ELSE stderr
    /\ AfterAdapter
    /\ UNCHANGED <<prog, hour, calls, exit_code, stdout, outcome, envelope, files>>
    /\ UNCHANGED <<emVars, pgVars, pdVars, auVars, adVars, svVars>>

OutputFiles == << "output/news_articles.csv", "output/news_articles.html",
                  "output/news_articles.json", "output/news_articles.odt" >>

\* scraper.main after its loop (701-711): the four files are written
ScraperMainFinish ==
    /\ prog = "scraper.main" /\ pc = "loop" /\ idx = Len(scrapers) + 1
    /\ files' = [ k \in 1..Len(OutputFiles) |->
                    [path |-> << OutputFiles[k] >>, rows |-> Len(all_articles)] ]
    /\ outcome' = "completed"
    /\ pc' = "done"
    /\ UNCHANGED <<prog, hour, idx, all_articles, articles, entries, pos, results, calls,
                   loop_delays, exit_code, stdout, stderr, envelope>>
    /\ UNCHANGED <<emVars, pgVars, pdVars, auVars, adVars, svVars>>

\* run_for_n8n.main after its loop (86-102)
N8nFinish ==
    /\ prog = "run_for_n8n.main" /\ pc = "loop" /\ idx = Len(scrapers) + 1
    /\ IF no_articles(all_articles)
       THEN /\ stderr' = Append(stderr, << "ERROR: No articles collected from any source." >>)
            /\ exit_code' = 1
            /\ UNCHANGED <<stdout, envelope, files>>
       ELSE LET env == Envelope(all_articles, get_session(hour)) IN
            /\ files' = << [path |-> env.savedFile, rows |-> Len(all_articles)] >>
            /\ envelope' = << env >>
            /\ stdout' = Append(stdout, env)
            /\ exit_code' = 0
            /\ UNCHANGED stderr
    /\ outcome' = "exited"
    /\ pc' = "done"
    /\ UNCHANGED <<prog, hour, idx, all_articles, articles, entries, pos, results, calls,
                   loop_delays>>
    /\ UNCHANGED <<emVars, pgVars, pdVars, auVars, adVars, svVars>>

\* run_scraper after its loop (61-82)
RunScraperFinish ==
    /\ prog = "scraper_server.run_scraper" /\ pc = "loop" /\ idx = Len(scrapers) + 1
    /\ IF no_articles(all_articles)
       THEN /\ outcome' = NoDataError
            /\ UNCHANGED <<envelope, files>>
       ELSE LET env == Envelope(all_articles, get_session(hour)) IN
            /\ files' = << [path |-> env.savedFile, rows |-> Len(all_articles)] >>
            /\ envelope' = << env >>
            /\ outcome' = "returned"
    /\ pc' = "done"
    /\ UNCHANGED <<prog, hour, idx, all_articles, articles, entries, pos, results, calls,
                   loop_delays, exit_code, stdout, stderr>>
    /\ UNCHANGED <<emVars, pgVars, pdVars, auVars, adVars, svVars>>

(***************************************************************************)
(* Inputs of get_html_email_body: article lists whose sources come in any  *)
(* order (known and unknown ones), alone or next to a run of TopN or       *)
(* TopN + 1 articles of one source; and lists whose first article, or the  *)
(* session label, carries markup.                                          *)
(***************************************************************************)
UnknownSources == { "Metro", "Daily Mail" }

InputSources == Range(source_order) \cup UnknownSources

Mixes == UNION { [1..n -> InputSources] : n \in 0..MaxMix }

SourceRuns == { [ i \in 1..r |-> s ] : s \in { "The Guardian", "Metro" }, r \in { TopN, TopN + 1 } }

SourceSeqs == Mixes \cup { m \o r : m \in Mixes, r \in SourceRuns }
                    \cup { r \o m : m \in Mixes, r \in SourceRuns }

CanonicalDate ==
    <<"2", "0", "2", "6", "-", "0", "2", "-", "1", "9", "T", "0", "9", ":", "0", "0", ":",
      "0", "0", "Z">>

\* the article at position p of an input: every third link repeats, every
\* second author and every third date is empty
InputArticle(source, p) ==
    Article(source,
            << "Headline ", ToString(p) >>,
            << "https://example.com/", ToString(p % 3) >>,
            << "Summary ", ToString(p) >>,
            IF p % 2 = 0 THEN <<>> ELSE << "Author ", ToString(p) >>,
            IF p % 3 = 0 THEN <<>> ELSE CanonicalDate)

InputList(ss) == [ p \in 1..Len(ss) |-> InputArticle(ss[p], p) ]

StyleText == << "<style>", "body{display:none}", "</style>" >>

StyleChars == << "<", "s", "t", "y", "l", "e", ">", "b", "o", "d", "y", "{", "}" >>

\* the list with a field of its first article carrying markup
WithMarkup(arts, field) ==
    [arts EXCEPT ![1] =
        CASE field = "title"   -> [@ EXCEPT !.title = StyleText]
          [] field = "url"     -> [@ EXCEPT !.url = StyleText]
          [] field = "summary" -> [@ EXCEPT !.summary = StyleText]
          [] field = "author"  -> [@ EXCEPT !.author = StyleText]
          [] field = "source"  -> [@ EXCEPT !.source = "<style>"]
          [] OTHER             -> [@ EXCEPT !.published_date = StyleChars]]

TextFields == { "title", "url", "summary", "author", "source", "published_date" }

EmailCases ==
    { [arts |-> InputList(ss), label |-> << "Evening Roundup" >>, markup |-> FALSE] :
        ss \in SourceSeqs }
    \cup { [arts |-> InputList(m), label |-> <<>>, markup |-> FALSE] : m \in Mixes }
    \cup { [arts |-> WithMarkup(InputList(m), f), label |-> << "Morning Briefing" >>,
            markup |-> TRUE] : m \in Mixes \ { <<>> }, f \in TextFields }
    \cup { [arts |-> InputList(m), label |-> << "<style>" >>, markup |-> TRUE] :
            m \in { n \in Mixes : Len(n) <= 1 } }

EmInit ==
    \E c \in EmailCases :
        /\ em_articles = c.arts
        /\ em_label = c.label
        /\ em_out = <<>>
        /\ em_pc = "call"

\* get_html_email_body(articles, session_label) is called and returns
Compose ==
    /\ em_pc = "call"
    /\ em_out' = get_html_email_body(em_articles, em_label, GeneratedAt)
    /\ em_pc' = "done"
    /\ UNCHANGED <<em_articles, em_label>>
    /\ UNCHANGED <<runVars, pgVars, pdVars, auVars, adVars, svVars>>

(***************************************************************************)
(* polite_get as steps: the call (the url test, the request going out)     *)
(* and the outcome of the request coming back.                             *)
(***************************************************************************)
PgInit ==
    /\ pg_url \in Urls
    /\ pg_net \in NetOutcomes
    /\ pg_pc = "call"
    /\ pg_requests = 0
    /\ pg_ret = <<>>
    /\ pg_raised = ""
    /\ pg_log = <<>>

\* `if not url: return None` (71-72)
PoliteGetNoUrl ==
    /\ pg_pc = "call" /\ Falsy(pg_url)
    /\ pg_ret' = <<>>
    /\ pg_pc' = "done"
    /\ UNCHANGED <<pg_url, pg_net, pg_requests, pg_raised, pg_log>>
    /\ UNCHANGED <<runVars, emVars, pdVars, auVars, adVars, svVars>>

\* requests.get(url, ...) is issued (74)
PoliteGetSend ==
    /\ pg_pc = "call" /\ ~Falsy(pg_url)
    /\ pg_requests' = pg_requests + 1
    /\ pg_pc' = "sent"
    /\ UNCHANGED <<pg_url, pg_net, pg_ret, pg_raised, pg_log>>
    /\ UNCHANGED <<runVars, emVars, pdVars, auVars, adVars, svVars>>

\* the request ends: raise_for_status, return resp, or an except clause (74-83)
PoliteGetFinish ==
    /\ pg_pc = "sent"
    /\ LET r == polite_get_after_request(pg_net) IN
        /\ pg_ret' = r.resp
        /\ pg_raised' = r.raised
        /\ pg_log' = pg_log \o r.log
    /\ pg_pc' = "done"
    /\ UNCHANGED <<pg_url, pg_net, pg_requests>>
    /\ UNCHANGED <<runVars, emVars, pdVars, auVars, adVars, svVars>>

(***************************************************************************)
(* parse_date applied to a raw date string, and again to its own result.   *)
(***************************************************************************)
PdInit ==
    /\ pd_raw \in RawDates
    /\ pd_pc = "call"
    /\ pd_ret = <<>>
    /\ pd_raised = FALSE
    /\ pd_again = <<>>

ParseDate ==
    /\ pd_pc = "call"
    /\ LET r == parse_date_result(pd_raw) IN
        /\ pd_ret' = r.value
        /\ pd_raised' = r.raised
    /\ pd_pc' = IF parse_date_result(pd_raw).raised THEN "raised" ELSE "returned"
    /\ UNCHANGED <<pd_raw, pd_again>>
    /\ UNCHANGED <<runVars, emVars, pgVars, auVars, adVars, svVars>>

ParseDateAgain ==
    /\ pd_pc = "returned"
    /\ LET r == parse_date_result(pd_ret) IN
        /\ pd_again' = r.value
        /\ pd_raised' = r.raised
    /\ pd_pc' = IF parse_date_result(pd_ret).raised THEN "raised" ELSE "twice"
    /\ UNCHANGED <<pd_raw, pd_ret>>
    /\ UNCHANGED <<runVars, emVars, pgVars, auVars, adVars, svVars>>

(***************************************************************************)
(* The author extractors.  An article page is described by what each       *)
(* lookup of an extractor finds on it: no element, or an element with its  *)
(* text (the content attribute for <meta name="author">).                  *)
(***************************************************************************)
MetaAuthor == "meta[name=author]"

BbcStrategies ==
    << "[data-testid=byline-new-contributors] span",
       "[data-component=byline-block] a",
       MetaAuthor >>

IndependentSelectors ==
    << "a[data-testid=author-name]", ".author__name", "[itemprop=author] [itemprop=name]" >>

SkySelectors ==
    << ".author-name", "[data-testid=author-name]", "article header p a" >>

AuthorSources == { "BBC News", "The Independent", "Sky News" }

\* the lookups an extractor makes, in the order it makes them
Strategies(source) ==
    CASE source = "BBC News"        -> BbcStrategies
      [] source = "The Independent" -> <<MetaAuthor>> \o IndependentSelectors
      [] source = "Sky News"        -> <<MetaAuthor>> \o SkySelectors

\* what a lookup finds: nothing, or one element carrying a text
NoElement == <<>>

Element(text) == <<text>>

ElementTexts(sel) == { <<>>, <<" ">>, <<" ", "Author found by ", sel, "\n">> }

Elements(sel) == { NoElement } \cup { Element(t) : t \in ElementTexts(sel) }

Pages(source) ==
    LET sels == Range(Strategies(source))
    IN { pg \in [ sels -> UNION { Elements(sel) : sel \in sels } ] :
            \A sel \in sels : pg[sel] \in Elements(sel) }

\* a bs4 Tag is truthy whenever it exists, whatever it contains
Found(node) == node # NoElement

\* node.get_text(strip=True), and meta.get("content", "").strip()
get_text(node) == Strip(node[1])

\* for sel in (...): node = soup.select_one(sel); if node: return node.get_text(strip=True)
RECURSIVE select_first(_, _)
select_first(page, sels) ==
    IF sels = <<>> THEN <<>>
    ELSE IF Found(page[Head(sels)]) THEN get_text(page[Head(sels)])
    ELSE select_first(page, Tail(sels))

bbc_get_author(resp, page) ==
    IF resp = "none" THEN <<>>
    ELSE IF Found(page[BbcStrategies[1]]) THEN get_text(page[BbcStrategies[1]])
    ELSE IF Found(page[BbcStrategies[2]]) THEN get_text(page[BbcStrategies[2]])
    ELSE IF Found(page[MetaAuthor]) THEN get_text(page[MetaAuthor])
    ELSE <<>>

independent_get_author(resp, page) ==
    IF resp = "none" THEN <<>>
    ELSE IF Found(page[MetaAuthor]) THEN get_text(page[MetaAuthor])
    ELSE select_first(page, IndependentSelectors)

sky_get_author(resp, page) ==
    IF resp = "none" THEN <<>>
    ELSE IF Found(page[MetaAuthor]) THEN get_text(page[MetaAuthor])
    ELSE select_first(page, SkySelectors)

get_author(source, resp, page) ==
    CASE source = "BBC News"        -> bbc_get_author(resp, page)
      [] source = "The Independent" -> independent_get_author(resp, page)
      [] source = "Sky News"        -> sky_get_author(resp, page)

\* one call of an extractor: polite_get gave a response or None
AuInit ==
    /\ au_src \in AuthorSources
    /\ au_resp \in { "none", "page" }
    /\ au_page \in Pages(au_src)
    /\ au_resp = "none" => \A sel \in DOMAIN au_page : au_page[sel] = NoElement
    /\ au_pc = "call"
    /\ au_ret = <<>>

GetAuthor ==
    /\ au_pc = "call"
    /\ au_ret' = get_author(au_src, au_resp, au_page)
    /\ au_pc' = "returned"
    /\ UNCHANGED <<au_src, au_resp, au_page>>
    /\ UNCHANGED <<runVars, emVars, pgVars, pdVars, adVars, svVars>>

(***************************************************************************)
(* One call of a source adapter (scrape_bbc, scrape_guardian,              *)
(* scrape_independent, scrape_sky_news), step by step: the listing         *)
(* request, then for every entry the author, the delay and the append.     *)
(*                                                                         *)
(* A feed entry (and a Guardian result, whose webTitle, webUrl, trailText, *)
(* byline and webPublicationDate are named title, link, summary, author    *)
(* and published here) is a dict: a key holds <<value>>, or <<>> when the  *)
(* key is absent.                                                          *)
(***************************************************************************)
\* the longest listing of an adapter call
MaxFeed == 2

EntryKinds == { "full", "anonymous", "blank", "bare" }

FeedEntry(kind, k) ==
    CASE kind = "full" ->
            [title     |-> << << " ", "Headline ", ToString(k), " " >> >>,
             link      |-> << << "https://example.com/", ToString(k) >> >>,
             summary   |-> << << "<p>", "Summary ", ToString(k), "</p>" >> >>,
             author    |-> << << "Author ", ToString(k) >> >>,
             published |-> << FeedPublished >>]
      [] kind = "anonymous" ->
            [title     |-> << << "Headline ", ToString(k) >> >>,
             link      |-> << << "https://example.com/", ToString(k) >> >>,
             summary   |-> << << "Summary ", ToString(k) >> >>,
             author    |-> <<>>,
             published |-> << FeedPublished >>]
      [] kind = "blank" ->
            [title     |-> << << "Headline ", ToString(k) >> >>,
             link      |-> << << "https://example.com/", ToString(k) >> >>,
             summary   |-> << <<>> >>,
             author    |-> << << " " >> >>,
             published |-> << <<>> >>]
      [] kind = "bare" ->
            [title |-> <<>>, link |-> <<>>, summary |-> <<>>, author |-> <<>>,
             published |-> <<>>]

Feeds ==
    UNION { { [ k \in 1..n |-> FeedEntry(kinds[k], k) ] : kinds \in [ 1..n -> EntryKinds ] } :
            n \in 0..MaxFeed }

\* entry.get(key, "")
entry_get(e, key) == IF e[key] = <<>> THEN <<>> ELSE e[key][1]

FeedSources == { "BBC News", "The Independent", "Sky News" }

\* the events of the trace
Ev(ev, k, res) == [ev |-> ev, k |-> k, res |-> res]

\* delay(): time.sleep(random.uniform(2.0, 5.0)), with no effect on the trace
delay_skipped(trace, k) == trace

\* delay(): time.sleep(random.uniform(2.0, 5.0))
delay(trace, k) == Append(trace, Ev("delay", k, ""))

\* the network outcomes of an article page request
PageNets ==
    { [kind |-> "response", status |-> 200], [kind |-> "response", status |-> 404],
      [kind |-> "Timeout", status |-> 0], [kind |-> "ConnectionError", status |-> 0] }

\* polite_get(url): None without a request for a falsy url
polite_get(url, net) ==
    IF Falsy(url) THEN [raised |-> "", resp |-> <<>>, log |-> <<>>, sent |-> FALSE]
    ELSE LET r == polite_get_after_request(net)
         IN [raised |-> r.raised, resp |-> r.resp, log |-> r.log, sent |-> TRUE]

\* the article pages of an adapter call: one naming its author in the
\* adapter's first lookup, one naming none
PageNamingAuthor(source) ==
    [ sel \in Range(Strategies(source)) |->
        IF sel = Strategies(source)[1] THEN Element(<< "Page author (", source, ")" >>)
        ELSE NoElement ]

PageNamingNobody(source) == [ sel \in Range(Strategies(source)) |-> NoElement ]

AdPages(source) == { PageNamingAuthor(source), PageNamingNobody(source) }

\* the author the entry itself carries: entry.get("author", "").strip(),
\* f.get("byline", "").strip()
own_author(e) == Strip(entry_get(e, "author"))

\* `if not author:` taken on the untrimmed feed value
needs_fetch_untrimmed(source, e) ==
    CASE source = "BBC News"     -> TRUE
      [] source = "The Guardian" -> FALSE
      [] OTHER                   -> entry_get(e, "author") = <<>>

\* does the adapter call its author extractor for this entry: scrape_bbc
\* always (162), scrape_guardian never, the other two `if not author:`
needs_fetch(source, e) ==
    CASE source = "BBC News"     -> TRUE
      [] source = "The Guardian" -> FALSE
      [] OTHER                   -> own_author(e) = <<>>

\* articles.append(...) that leaves out an article without author
append_named_only(arts, a) == IF a.author = <<>> THEN arts ELSE Append(arts, a)

\* articles.append(Article(...))
append(arts, a) == Append(arts, a)

\* the Article built from an entry and the author resolved for it
entry_article(source, e, author) ==
    Article(source, Strip(entry_get(e, "title")), Strip(entry_get(e, "link")),
            strip_html(entry_get(e, "summary")), author,
            parse_date(entry_get(e, "published")))

\* the outcomes of the Guardian API request: the network outcome and
\* whether the body is JSON
ApiOutcomes ==
    { [net |-> n, json |-> j] : n \in PageNets, j \in BOOLEAN }

\* what the try block of scrape_guardian raises (198-206)
RaisedInGuardianTry(api) ==
    IF RaisedInTry(api.net) # "" THEN RaisedInTry(api.net)
    ELSE IF ~api.json THEN "JSONDecodeError" ELSE ""

\* an except clause for the requests exceptions only
guardian_catches_requests_only(exc) == exc \in { "HTTPError" } \cup TransportErrors

\* except Exception (207)
guardian_catches(exc) == exc \in { "HTTPError", "JSONDecodeError" } \cup TransportErrors

AdInit ==
    /\ ad_src \in Range(source_order)
    /\ ad_pc = "start"
    /\ ad_entries = <<>> /\ ad_pos = 0 /\ ad_author = <<>> /\ ad_articles = <<>>
    /\ ad_trace = <<>> /\ ad_ret = <<>> /\ ad_raised = ""

\* entries = parse_feed(URL): feedparser returns the entries it could read
\* and sets bozo on a fetch or parse error; it does not raise
AdParseFeed ==
    /\ ad_pc = "start" /\ ad_src \in FeedSources
    /\ \E feed \in Feeds, bozo \in BOOLEAN :
        /\ ad_entries' = feed
        /\ ad_trace' = << Ev("listing", 0,
                             IF ~bozo THEN "ok" ELSE IF feed = <<>> THEN "failed" ELSE "bozo") >>
    /\ ad_pc' = "entry"
    /\ UNCHANGED <<ad_src, ad_pos, ad_author, ad_articles, ad_ret, ad_raised>>
    /\ UNCHANGED <<runVars, emVars, pgVars, pdVars, auVars, svVars>>

\* scrape_guardian up to the loop (198-212)
AdCallGuardian ==
    /\ ad_pc = "start" /\ ad_src = "The Guardian"
    /\ \E api \in ApiOutcomes, res \in Feeds :
        LET exc == RaisedInGuardianTry(api) IN
        IF exc = ""
        THEN /\ ad_entries' = res
             /\ ad_trace' = << Ev("listing", 0, "ok") >>
             /\ ad_pc' = "entry"
             /\ UNCHANGED <<ad_ret, ad_raised>>
        ELSE /\ ad_entries' = <<>>
             /\ ad_trace' = << Ev("listing", 0, exc) >>
             /\ ad_pc' = "done"
             /\ IF guardian_catches(exc)
                THEN ad_ret' = ad_articles /\ ad_raised' = ""
                ELSE ad_ret' = <<>> /\ ad_raised' = exc
    /\ UNCHANGED <<ad_src, ad_pos, ad_author, ad_articles>>
    /\ UNCHANGED <<runVars, emVars, pgVars, pdVars, auVars, svVars>>

\* the author comes from the entry itself, without a page request
AdResolveAuthor ==
    /\ ad_pc = "entry" /\ ad_pos < Len(ad_entries)
    /\ ~needs_fetch(ad_src, ad_entries[ad_pos + 1])
    /\ ad_author' = own_author(ad_entries[ad_pos + 1])
    /\ ad_pc' = "resolved"
    /\ UNCHANGED <<ad_src, ad_entries, ad_pos, ad_articles, ad_trace, ad_ret, ad_raised>>
    /\ UNCHANGED <<runVars, emVars, pgVars, pdVars, auVars, svVars>>

\* author = _bbc_get_author(url) / _independent_get_author(url) /
\* _sky_get_author(url)
AdFetchAuthor ==
    /\ ad_pc = "entry" /\ ad_pos < Len(ad_entries)
    /\ needs_fetch(ad_src, ad_entries[ad_pos + 1])
    /\ \E net \in PageNets, page \in AdPages(ad_src) :
        LET url    == StrUrl(Strip(entry_get(ad_entries[ad_pos + 1], "link")))
            r      == polite_get(url, net)
            author == get_author(ad_src, IF r.resp = <<>> THEN "none" ELSE "page", page)
            res    == IF ~r.sent THEN "no_url"
                      ELSE IF r.resp = <<>> THEN "failed"
                      ELSE IF author = <<>> THEN "no_author" ELSE "author"
        IN /\ ad_trace' = Append(ad_trace, Ev("page", ad_pos + 1, res))
           /\ IF r.raised = ""
              THEN /\ ad_author' = author
                   /\ ad_pc' = "resolved"
                   /\ UNCHANGED ad_raised
              ELSE /\ ad_raised' = r.raised
                   /\ ad_pc' = "done"
                   /\ UNCHANGED ad_author
    /\ UNCHANGED <<ad_src, ad_entries, ad_pos, ad_articles, ad_ret>>
    /\ UNCHANGED <<runVars, emVars, pgVars, pdVars, auVars, svVars>>

\* delay(): before the append in the feed adapters (163, 276, 337), after
\* it in scrape_guardian (224)
AdDelay ==
    /\ \/ ad_src \in FeedSources /\ ad_pc = "resolved" /\ ad_pc' = "delayed"
          /\ UNCHANGED ad_pos
       \/ ad_src = "The Guardian" /\ ad_pc = "appended" /\ ad_pc' = "entry"
          /\ ad_pos' = ad_pos + 1
    /\ ad_trace' = delay(ad_trace, ad_pos + 1)
    /\ UNCHANGED <<ad_src, ad_entries, ad_author, ad_articles, ad_ret, ad_raised>>
    /\ UNCHANGED <<runVars, emVars, pgVars, pdVars, auVars, svVars>>

\* articles.append(Article(...))
AdAppend ==
    /\ \/ ad_src \in FeedSources /\ ad_pc = "delayed" /\ ad_pc' = "entry"
          /\ ad_pos' = ad_pos + 1
       \/ ad_src = "The Guardian" /\ ad_pc = "resolved" /\ ad_pc' = "appended"
          /\ UNCHANGED ad_pos
    /\ ad_articles' = append(ad_articles,
                             entry_article(ad_src, ad_entries[ad_pos + 1], ad_author))
    /\ UNCHANGED <<ad_src, ad_entries, ad_author, ad_trace, ad_ret, ad_raised>>
    /\ UNCHANGED <<runVars, emVars, pgVars, pdVars, auVars, svVars>>

\* return articles
AdReturn ==
    /\ ad_pc = "entry" /\ ad_pos = Len(ad_entries)
    /\ ad_ret' = ad_articles
    /\ ad_pc' = "done"
    /\ UNCHANGED <<ad_src, ad_entries, ad_pos, ad_author, ad_articles, ad_trace, ad_raised>>
    /\ UNCHANGED <<runVars, emVars, pgVars, pdVars, auVars, svVars>>

(***************************************************************************)
(* The HTTP server (scraper_server.py): HTTPServer.serve_forever accepts a *)
(* request, runs ScraperHandler.do_GET for it to the end, and only then    *)
(* accepts the next one.  A handler owns the locals of its run_scraper     *)
(* call and the output stream of its connection.                           *)
(***************************************************************************)
\* the number of requests the clients send
MaxRequests == 2

Paths == { "/health", "/run", "/status" }

\* the listings the adapters see during a run of the server
ServerFeedSizes == { 0, 1 }

\* a server that hands every request to a thread of its own
can_accept_threading(active) == TRUE

\* HTTPServer (117-119) is single-threaded: serve_forever takes the next
\* request only when no handler is running
can_accept(active) == active = {}

\* all_articles bound to a list that outlives the call
reused_list(last) == last

\* all_articles = [] (45): every call of run_scraper binds a new list
new_list(last) == <<>>

\* a handler whose /run branch has no try
do_GET_catches_nothing(exc) == FALSE

\* except Exception (108)
do_GET_catches(exc) == exc \in { NoDataError }

\* ScraperHandler.send_json (90-96): one response on the connection
send_json(out, code, payload) == Append(out, [code |-> code, payload |-> payload])

NotFoundError == "Not found. Use GET /run or GET /health"

Handler(path, busy) ==
    [path |-> path, busy |-> busy, pc |-> "do_GET", session |-> "", idx |-> 0,
     all_articles |-> <<>>, got |-> <<>>, out |-> <<>>, raised |-> ""]

Active == DOMAIN sv_handlers

SvInit ==
    /\ sv_sent = 0 /\ sv_backlog = <<>> /\ sv_handlers = <<>> /\ sv_log = <<>>
    /\ sv_last_list = <<>>

\* a client sends GET <path>; the request waits in the listen queue
SvClientSend ==
    /\ sv_sent < MaxRequests
    /\ \E path \in Paths :
        sv_backlog' = Append(sv_backlog,
                             [id |-> sv_sent + 1, path |-> path, busy |-> Active])
    /\ sv_sent' = sv_sent + 1
    /\ UNCHANGED <<sv_handlers, sv_log, sv_last_list>>
    /\ UNCHANGED <<runVars, emVars, pgVars, pdVars, auVars, adVars>>

\* serve_forever takes the oldest waiting request and calls do_GET
SvAccept ==
    /\ sv_backlog # <<>>
    /\ can_accept(Active)
    /\ LET req == Head(sv_backlog)
       IN sv_handlers' = (req.id :> Handler(req.path, req.busy)) @@ sv_handlers
    /\ sv_backlog' = Tail(sv_backlog)
    /\ UNCHANGED <<sv_sent, sv_log, sv_last_list>>
    /\ UNCHANGED <<runVars, emVars, pgVars, pdVars, auVars, adVars>>

\* do_GET, path == "/health" (99-100)
SvHealth ==
    /\ \E id \in Active :
        /\ sv_handlers[id].pc = "do_GET" /\ sv_handlers[id].path = "/health"
        /\ sv_handlers' =
              [sv_handlers EXCEPT ![id].out = send_json(@, 200, [status |-> "ok"]),
                                  ![id].pc = "finish"]
    /\ UNCHANGED <<sv_sent, sv_backlog, sv_log, sv_last_list>>
    /\ UNCHANGED <<runVars, emVars, pgVars, pdVars, auVars, adVars>>

\* do_GET, any other path (112-113)
SvNotFound ==
    /\ \E id \in Active :
        /\ sv_handlers[id].pc = "do_GET" /\ sv_handlers[id].path \notin { "/health", "/run" }
        /\ sv_handlers' =
              [sv_handlers EXCEPT ![id].out = send_json(@, 404, [error |-> NotFoundError]),
                                  ![id].pc = "finish"]
    /\ UNCHANGED <<sv_sent, sv_backlog, sv_log, sv_last_list>>
    /\ UNCHANGED <<runVars, emVars, pgVars, pdVars, auVars, adVars>>

\* do_GET, path == "/run": run_scraper up to its loop (102-105, 39-51)
SvRunStart ==
    /\ \E id \in Active, h \in ClockHours :
        /\ sv_handlers[id].pc = "do_GET" /\ sv_handlers[id].path = "/run"
        /\ sv_handlers' =
              [sv_handlers EXCEPT ![id].session = get_session(h),
                                  ![id].all_articles = new_list(sv_last_list),
                                  ![id].idx = 1,
                                  ![id].pc = "run"]
    /\ UNCHANGED <<sv_sent, sv_backlog, sv_log, sv_last_list>>
    /\ UNCHANGED <<runVars, emVars, pgVars, pdVars, auVars, adVars>>

\* one round of run_scraper's loop (53-59): fn() returns its list or raises
SvRunAdapter ==
    /\ \E id \in Active :
        LET hd == sv_handlers[id] IN
        /\ hd.pc = "run" /\ hd.idx <= Len(scrapers)
        /\ \/ \E n \in ServerFeedSizes :
                LET res == [ k \in 1..n |-> make_article(scrapers[hd.idx], Entry(k)) ]
                IN sv_handlers' =
                      [sv_handlers EXCEPT
                          ![id].all_articles = extend(@, res),
                          ![id].got = Append(@, [st |-> "returned", list |-> res]),
                          ![id].idx = @ + 1]
           \/ sv_handlers' =
                  [sv_handlers EXCEPT
                      ![id].all_articles = after_raise(@, <<>>),
                      ![id].got = Append(@, [st |-> "raised", list |-> <<>>]),
                      ![id].idx = @ + 1]
    /\ UNCHANGED <<sv_sent, sv_backlog, sv_log, sv_last_list>>
    /\ UNCHANGED <<runVars, emVars, pgVars, pdVars, auVars, adVars>>

\* the end of run_scraper (61-82) and of the /run branch of do_GET (105-110)
SvRunFinish ==
    /\ \E id \in Active :
        LET hd  == sv_handlers[id]
            exc == IF no_articles(hd.all_articles) THEN NoDataError ELSE ""
        IN /\ hd.pc = "run" /\ hd.idx = Len(scrapers) + 1
           /\ sv_last_list' = hd.all_articles
           /\ sv_handlers' =
                IF exc = ""
                THEN [sv_handlers EXCEPT
                        ![id].out = send_json(@, 200, Envelope(hd.all_articles, hd.session)),
                        ![id].pc = "finish"]
                ELSE IF do_GET_catches(exc)
                THEN [sv_handlers EXCEPT
                        ![id].out = send_json(@, 500, [error |-> exc]),
                        ![id].pc = "finish"]
                ELSE [sv_handlers EXCEPT ![id].raised = exc, ![id].pc = "finish"]
    /\ UNCHANGED <<sv_sent, sv_backlog, sv_log>>
    /\ UNCHANGED <<runVars, emVars, pgVars, pdVars, auVars, adVars>>

\* do_GET is over: the connection is closed and the request is logged
SvClose ==
    /\ \E id \in Active :
        /\ sv_handlers[id].pc = "finish"
        /\ sv_log' = Append(sv_log,
                            [id |-> id, path |-> sv_handlers[id].path,
                             codes |-> [ j \in DOMAIN sv_handlers[id].out |->
                                            sv_handlers[id].out[j].code ]])
        /\ sv_handlers' = [ i \in Active \ { id } |-> sv_handlers[i] ]
    /\ UNCHANGED <<sv_sent, sv_backlog, sv_last_list>>
    /\ UNCHANGED <<runVars, emVars, pgVars, pdVars, auVars, adVars>>

(***************************************************************************)
(* The specifications: each runs one part; the other parts stay idle.      *)
(***************************************************************************)
RunIdle ==
    /\ prog = "none" /\ hour = -1 /\ pc = "idle" /\ idx = 0
    /\ all_articles = <<>> /\ articles = <<>> /\ entries = <<>> /\ pos = 0
    /\ results = <<>> /\ calls = <<>> /\ loop_delays = 0 /\ exit_code = -1
    /\ stdout = <<>> /\ stderr = <<>> /\ outcome = "idle" /\ envelope = <<>>
    /\ files = <<>>

EmIdle == em_articles = <<>> /\ em_label = <<>> /\ em_out = <<>> /\ em_pc = "idle"

PgIdle ==
    /\ pg_url = NoneUrl /\ pg_net = [kind |-> "response", status |-> 200]
    /\ pg_pc = "idle" /\ pg_requests = 0 /\ pg_ret = <<>> /\ pg_raised = ""
    /\ pg_log = <<>>

PdIdle == pd_raw = <<>> /\ pd_pc = "idle" /\ pd_ret = <<>> /\ pd_raised = FALSE /\ pd_again = <<>>

AuIdle ==
    /\ au_src = "none" /\ au_resp = "none" /\ au_page = <<>> /\ au_pc = "idle"
    /\ au_ret = <<>>

AdIdle ==
    /\ ad_src = "none" /\ ad_pc = "idle" /\ ad_entries = <<>> /\ ad_pos = 0
    /\ ad_author = <<>> /\ ad_articles = <<>> /\ ad_trace = <<>> /\ ad_ret = <<>>
    /\ ad_raised = ""

SvIdle ==
    /\ sv_sent = 0 /\ sv_backlog = <<>> /\ sv_handlers = <<>> /\ sv_log = <<>>
    /\ sv_last_list = <<>>

\* the run loops
Init == RunInit /\ EmIdle /\ PgIdle /\ PdIdle /\ AuIdle /\ AdIdle /\ SvIdle

Next ==
    \/ CallAdapter
    \/ AdapterEntry
    \/ AdapterReturn
    \/ AdapterRaise
    \/ ScraperMainFinish
    \/ N8nFinish
    \/ RunScraperFinish

Spec == Init /\ [][Next]_vars

\* get_html_email_body
EmailInit == EmInit /\ RunIdle /\ PgIdle /\ PdIdle /\ AuIdle /\ AdIdle /\ SvIdle

EmailNext == Compose

SpecEmail == EmailInit /\ [][EmailNext]_vars

\* polite_get
GetInit == PgInit /\ RunIdle /\ EmIdle /\ PdIdle /\ AuIdle /\ AdIdle /\ SvIdle

GetNext == PoliteGetNoUrl \/ PoliteGetSend \/ PoliteGetFinish

SpecGet == GetInit /\ [][GetNext]_vars

\* parse_date
DateInit == PdInit /\ RunIdle /\ EmIdle /\ PgIdle /\ AuIdle /\ AdIdle /\ SvIdle

DateNext == ParseDate \/ ParseDateAgain

SpecDate == DateInit /\ [][DateNext]_vars

\* the author extractors
AuthorInit == AuInit /\ RunIdle /\ EmIdle /\ PgIdle /\ PdIdle /\ AdIdle /\ SvIdle

AuthorNext == GetAuthor

SpecAuthor == AuthorInit /\ [][AuthorNext]_vars

\* one adapter call
AdapterInit == AdInit /\ RunIdle /\ EmIdle /\ PgIdle /\ PdIdle /\ AuIdle /\ SvIdle

AdapterNext ==
    \/ AdParseFeed
    \/ AdCallGuardian
    \/ AdResolveAuthor
    \/ AdFetchAuthor
    \/ AdDelay
    \/ AdAppend
    \/ AdReturn

SpecAdapter == AdapterInit /\ [][AdapterNext]_vars

\* the HTTP server
ServerInit == SvInit /\ RunIdle /\ EmIdle /\ PgIdle /\ PdIdle /\ AuIdle /\ AdIdle

ServerNext ==
    \/ SvClientSend
    \/ SvAccept
    \/ SvHealth
    \/ SvNotFound
    \/ SvRunStart
    \/ SvRunAdapter
    \/ SvRunFinish
    \/ SvClose

SpecServer == ServerInit /\ [][ServerNext]_vars

(***************************************************************************)
(* Properties of the run loops (specification Spec).                       *)
(***************************************************************************)
Adapters == 1..Len(scrapers)

Raised(i) == results[i].st = "raised"

Returned(i) == results[i].st = "returned"

\* the lengths of the lists the adapters returned (0 for one that raised)
ReturnedLengths == [ i \in Adapters |-> IF Returned(i) THEN Len(results[i].list) ELSE 0 ]

\* every adapter returned an empty list or raised
NothingCollected == \A i \in Adapters : Raised(i) \/ (Returned(i) /\ results[i].list = <<>>)

Webhook == prog \in { "run_for_n8n.main", "scraper_server.run_scraper" }

RunSucceeded ==
    /\ Len(envelope) = 1
    /\ prog = "run_for_n8n.main" => exit_code = 0 /\ stdout = envelope
    /\ prog = "scraper_server.run_scraper" => outcome = "returned"

\* C1: in run_for_n8n.main and run_scraper, when exactly one adapter raised
\* and the other three returned non-empty lists, the run succeeds and the
\* envelope's article count is the sum of the three returned lists' lengths.
C1_OneAdapterFails ==
    ( /\ Webhook /\ pc = "done"
      /\ Cardinality({ i \in Adapters : Raised(i) }) = 1
      /\ \A i \in Adapters : Returned(i) => results[i].list # <<>> )
    => /\ RunSucceeded
       /\ envelope[1].articles = SeqSum(ReturnedLengths)

C1_Witness ==
    /\ prog = "scraper_server.run_scraper" /\ pc = "done"
    /\ Raised(2) /\ results[2].list # <<>>
    /\ \A i \in Adapters \ { 2 } : Returned(i) /\ results[i].list # <<>>
    /\ Len(results[4].list) = TopN + 1
    /\ envelope # <<>>

\* C2: a run fails exactly when nothing was collected once all four adapters
\* have been attempted.  run_for_n8n.main then exits with code 1 and prints
\* no envelope, and otherwise prints exactly one envelope and exits with
\* code 0; run_scraper then raises its no-articles error, and otherwise
\* returns an envelope.  Neither ends before the fourth adapter was called.
C2_FailsIffEmpty ==
    /\ pc # "done" => outcome = "running" /\ exit_code = -1 /\ stdout = <<>> /\ envelope = <<>>
    /\ (Webhook /\ pc = "done") =>
        /\ Len(calls) = Len(scrapers)
        /\ prog = "run_for_n8n.main" =>
              IF NothingCollected
              THEN exit_code = 1 /\ stdout = <<>>
              ELSE exit_code = 0 /\ Len(stdout) = 1
        /\ prog = "scraper_server.run_scraper" =>
              IF NothingCollected
              THEN outcome = NoDataError /\ envelope = <<>>
              ELSE outcome = "returned" /\ Len(envelope) = 1

C2_Witness ==
    /\ prog = "run_for_n8n.main" /\ pc = "done"
    /\ Raised(1) /\ Returned(2) /\ Raised(3) /\ Returned(4)
    /\ NothingCollected
    /\ exit_code = 1 /\ stdout = <<>>

\* C3: scraper.main fails with a no-data condition when the combined list is
\* empty: it does not complete normally when every adapter returned an empty
\* list or raised.
C3_MainFailsWhenEmpty ==
    (prog = "scraper.main" /\ pc = "done" /\ NothingCollected) => outcome # "completed"

\* the article an adapter builds from entry k of its listing
ExpectedArticle(source, k) ==
    Article(source,
            << "Headline ", ToString(k) >>,
            << "https://example.com/", ToString(((k - 1) % 10) + 1) >>,
            << "Summary ", ToString(k) >>,
            << "Author ", ToString(k) >>,
            CanonicalDate)

\* C4: in every run loop the combined list is the concatenation of the lists
\* returned by the adapters that did not raise, in the order BBC News, The
\* Guardian, The Independent, Sky News, each list in its own order: nothing
\* is dropped, duplicated, merged by url or reordered.
C4_Concatenation ==
    /\ \A i \in Adapters : Returned(i) =>
          results[i].list = [ k \in 1..Len(results[i].list) |-> ExpectedArticle(source_order[i], k) ]
    /\ all_articles =
          Flatten([ i \in Adapters |-> IF Returned(i) THEN results[i].list ELSE <<>> ])

C4_Witness ==
    /\ pc = "done" /\ prog = "scraper.main"
    /\ Returned(1) /\ Len(results[1].list) = 2
    /\ Raised(2)
    /\ Returned(3) /\ Len(results[3].list) = TopN + 1
    /\ Returned(4) /\ Len(results[4].list) = 1
    /\ Len(all_articles) = TopN + 4
    /\ all_articles[1].url = all_articles[3].url
    /\ all_articles[3].url = all_articles[TopN + 3].url

\* C5: each of the four adapters is called exactly once, one after the other
\* in declaration order, whether or not an earlier one raised; and an adapter
\* that raises after building some articles contributes none of them.
C5_IsolatedAdapters ==
    /\ calls = SubSeq(source_order, 1, Len(calls))
    /\ Len(calls) = (IF pc = "adapter" THEN idx ELSE idx - 1)
    /\ pc = "done" => calls = source_order /\ \A i \in Adapters : Raised(i) \/ Returned(i)
    /\ \A i \in Adapters : Raised(i) =>
          \A j \in DOMAIN all_articles : all_articles[j].source # source_order[i]

C5_Witness ==
    /\ pc = "done"
    /\ Raised(1) /\ results[1].list # <<>>
    /\ Returned(2) /\ results[2].list # <<>>
    /\ Raised(3)
    /\ Returned(4) /\ results[4].list # <<>>

(***************************************************************************)
(* Properties of get_html_email_body (specification SpecEmail), read off   *)
(* the returned fragment: its blocks are found at the template's block     *)
(* header, its rows at the template's title anchor.                        *)
(***************************************************************************)
Positions(out, piece) == { i \in DOMAIN out : out[i] = piece }

RECURSIVE Ascending(_)
Ascending(S) ==
    IF S = {} THEN <<>>
    ELSE LET m == CHOOSE x \in S : \A y \in S : x <= y IN << m >> \o Ascending(S \ { m })

\* the title of the row whose anchor opens at position j
RowTitle(out, j) ==
    LET close == CHOOSE k \in Positions(out, TitleClose) :
                    k > j /\ \A l \in Positions(out, TitleClose) : l > j => k <= l
    IN SubSeq(out, j + 1, close - 1)

\* the blocks of a fragment, in order: the source and the count of each
\* block's header, and the titles of the rows up to the next header
Blocks(out) ==
    LET starts == Ascending(Positions(out, SectionOpen)) IN
    [ b \in 1..Len(starts) |->
        LET from == starts[b]
            to   == IF b < Len(starts) THEN starts[b + 1] ELSE Len(out) + 1
            rows == Ascending({ j \in Positions(out, TitleOpen) : from < j /\ j < to })
        IN [source |-> out[from + 5],
            count  |-> out[from + 7],
            titles |-> [ r \in 1..Len(rows) |-> RowTitle(out, rows[r]) ]] ]

SourcesOf(arts) == { arts[i].source : i \in DOMAIN arts }

\* C6: for every input list and every source s with n articles in it, the
\* block of s has as rows exactly the first min(n, 10) articles of s in their
\* incoming order, its header shows the count min(n, 10), and the fragment
\* has as many rows as the sum over the sources of min(n, 10).
C6_FirstTenPerSource ==
    em_pc = "done" =>
        LET blocks == Blocks(em_out) IN
        /\ \A s \in SourcesOf(em_articles) :
              LET mine == SelectSeq(em_articles, LAMBDA a : a.source = s)
                  kept == Min(Len(mine), 10)
              IN \E b \in DOMAIN blocks :
                    /\ blocks[b].source = s
                    /\ blocks[b].count = ToString(kept)
                    /\ blocks[b].titles = [ k \in 1..kept |-> mine[k].title ]
        /\ Cardinality(Positions(em_out, TitleOpen)) =
              SeqSum([ b \in DOMAIN blocks |-> Len(blocks[b].titles) ])
        /\ Cardinality(Positions(em_out, RowClose)) = Cardinality(Positions(em_out, TitleOpen))
        /\ Len(blocks) = Cardinality(SourcesOf(em_articles))

C6_Witness ==
    /\ em_pc = "done"
    /\ Len(SelectSeq(em_articles, LAMBDA a : a.source = "The Guardian")) = 13
    /\ em_articles[1].source = "The Guardian"
    /\ em_articles[2].source = "Sky News"
    /\ em_articles[Len(em_articles)].source = "The Guardian"
    /\ Cardinality(Positions(em_out, TitleOpen)) = 11

\* the position of the first article of source s in the list
FirstIndex(arts, s) == CHOOSE i \in DOMAIN arts : arts[i].source = s /\ \A j \in 1..(i - 1) : arts[j].source # s

KnownIndex(s) == CHOOSE i \in DOMAIN source_order : source_order[i] = s

ComesBefore(arts, s, t) ==
    IF s \in Range(source_order)
    THEN t \in Range(source_order) => KnownIndex(s) < KnownIndex(t)
    ELSE t \notin Range(source_order) /\ FirstIndex(arts, s) < FirstIndex(arts, t)

\* C7: the fragment has one block per source present in the input: the known
\* sources in the order BBC News, The Guardian, The Independent, Sky News
\* whatever their order in the input, then the other sources in the order of
\* their first appearance; a source absent from the input has no block.
C7_BlockOrder ==
    em_pc = "done" =>
        LET blocks == Blocks(em_out) IN
        /\ { blocks[b].source : b \in DOMAIN blocks } = SourcesOf(em_articles)
        /\ \A b, c \in DOMAIN blocks :
              b < c => /\ blocks[b].source # blocks[c].source
                       /\ ComesBefore(em_articles, blocks[b].source, blocks[c].source)

C7_Witness ==
    /\ em_pc = "done"
    /\ Len(em_articles) = 3
    /\ em_articles[1].source = "Metro"
    /\ em_articles[2].source = "Sky News"
    /\ em_articles[3].source = "BBC News"
    /\ [ b \in DOMAIN Blocks(em_out) |-> Blocks(em_out)[b].source ] = << "BBC News", "Sky News", "Metro" >>

\* the fragment holds an opening <style> tag, as one piece or spelt out
HasStyleTag(out) ==
    \/ \E i \in DOMAIN out : out[i] = "<style>"
    \/ \E i \in 1..(Len(out) - 6) : SubSeq(out, i, i + 6) = << "<", "s", "t", "y", "l", "e", ">" >>

\* C8: whatever text the fields of the articles and the session label carry,
\* the fragment holds no <style> block.
C8_NoStyleBlock == em_pc = "done" => ~HasStyleTag(em_out)

(***************************************************************************)
(* Properties of polite_get (specification SpecGet).                       *)
(***************************************************************************)
\* C9: polite_get never lets a transport outcome escape and never retries:
\* for an empty or missing url it returns no response and issues no request;
\* otherwise it issues exactly one GET, and returns the response exactly
\* when that GET ended with a response whose status is below 400.
C9_PoliteGet ==
    /\ pg_raised = ""
    /\ pg_requests <= 1
    /\ pg_pc = "sent" => pg_requests = 1 /\ ~Falsy(pg_url)
    /\ pg_pc = "done" =>
          IF pg_url.isNone \/ pg_url.text = <<>>
          THEN pg_requests = 0 /\ pg_ret = <<>>
          ELSE /\ pg_requests = 1
               /\ IF pg_net.kind = "response" /\ pg_net.status \in 100..399
                  THEN pg_ret = << pg_net.status >>
                  ELSE pg_ret = <<>>

C9_Witness ==
    /\ pg_pc = "done" /\ pg_url = StrUrl(<<"https://example.com/a">>)
    /\ pg_net.kind = "ConnectionError"
    /\ pg_requests = 1 /\ pg_ret = <<>> /\ pg_log # <<>>

(***************************************************************************)
(* Properties of parse_date (specification SpecDate).                      *)
(***************************************************************************)
IsDigit(c) == \E i \in DOMAIN Digits : Digits[i] = c

\* YYYY-MM-DDTHH:MM:SSZ
CanonicalShape(t) ==
    /\ Len(t) = 20
    /\ t[5] = "-" /\ t[8] = "-" /\ t[11] = "T" /\ t[14] = ":" /\ t[17] = ":" /\ t[20] = "Z"
    /\ \A i \in { 1, 2, 3, 4, 6, 7, 9, 10, 12, 13, 15, 16, 18, 19 } : IsDigit(t[i])

Parseable(raw) == raw # <<>> /\ ~dateparser_parse(raw).raised

\* C10: parse_date never raises; it returns "" for "", the same string for a
\* string the parser rejects, a string of the shape YYYY-MM-DDTHH:MM:SSZ for a
\* string the parser accepts, and a string of that shape unchanged; applied
\* to its own result it returns that result.
C10_ParseDate ==
    /\ ~pd_raised
    /\ pd_pc \in { "returned", "twice" } =>
          /\ pd_raw = <<>> => pd_ret = <<>>
          /\ (pd_raw # <<>> /\ ~Parseable(pd_raw)) => pd_ret = pd_raw
          /\ Parseable(pd_raw) => CanonicalShape(pd_ret)
          /\ CanonicalShape(pd_raw) => pd_ret = pd_raw
    /\ pd_pc = "twice" => pd_again = pd_ret

C10_Witness ==
    /\ pd_pc = "twice"
    /\ pd_raw = <<"2", "0", "2", "6", "-", "0", "2", "-", "1", "9", " ", "2", "3", ":", "0", "0",
                  ":", "5", "9">>
    /\ pd_ret = <<"2", "0", "2", "6", "-", "0", "2", "-", "1", "9", "T", "2", "3", ":", "0", "0",
                  ":", "5", "9", "Z">>
    /\ pd_again = pd_ret

\* the fields of the same instant in UTC: a datetime whose tzinfo is `off`
\* minutes east of UTC, shifted by -off (within the month)
ToUtc(f, off) ==
    LET total == (f.h * 60 + f.mi) - off
        day   == IF total < 0 THEN f.d - 1 ELSE IF total >= 1440 THEN f.d + 1 ELSE f.d
        mins  == (total + 1440) % 1440
    IN [f EXCEPT !.d = day, !.h = mins \div 60, !.mi = mins % 60]

\* C11: the timestamp parse_date returns on success is in UTC: for an input
\* with an explicit offset it is the input's instant converted to UTC, and
\* for an input with no timezone the wall-clock fields are kept.
C11_UtcInstant ==
    (pd_pc \in { "returned", "twice" } /\ Parseable(pd_raw)) =>
        LET dt == dateparser_parse(pd_raw) IN
        pd_ret = strftime(IF dt.aware THEN ToUtc(dt.f, dt.off) ELSE dt.f)


(***************************************************************************)
(* Properties of the author extractors (specification SpecAuthor).         *)
(***************************************************************************)
\* the trimmed texts of the lookups, in lookup order
StrategyTexts(source, page) ==
    [ k \in DOMAIN Strategies(source) |->
        IF page[Strategies(source)[k]] = NoElement THEN <<>>
        ELSE Strip(page[Strategies(source)[k]][1]) ]

RECURSIVE FirstNonEmpty(_)
FirstNonEmpty(texts) ==
    IF texts = <<>> THEN <<>>
    ELSE IF Head(texts) # <<>> THEN Head(texts)
    ELSE FirstNonEmpty(Tail(texts))

\* C12: an author extractor returns the text of the first strategy, in its
\* fixed order, that yields non-empty text (an earlier element that is
\* present but empty does not stop a later one), and "" only when no
\* strategy yields any text.
C12_FirstNonEmptyText ==
    (au_pc = "returned" /\ au_resp = "page") =>
        au_ret = FirstNonEmpty(StrategyTexts(au_src, au_page))


(***************************************************************************)
(* Properties of one adapter call (specification SpecAdapter).             *)
(***************************************************************************)
AdDone == ad_pc = "done" /\ ad_raised = ""

\* the positions of the trace holding an event of a kind
EventsAt(ev) == { j \in DOMAIN ad_trace : ad_trace[j].ev = ev }

\* the calls of the author extractor made for entry k
PageCalls(k) == { j \in EventsAt("page") : ad_trace[j].k = k }

\* the page calls that put a request on the network
PageRequests == { j \in EventsAt("page") : ad_trace[j].res # "no_url" }

ListingFailed == ad_trace # <<>> /\ ad_trace[1].res \notin { "ok", "bozo" }

\* C15: in a feed adapter a politeness delay precedes every outbound page
\* request: since the request before it (the listing request or the previous
\* page request) at least one delay was executed.
C15_DelayBeforeFetch ==
    ad_src \in FeedSources =>
        \A j \in PageRequests : j > 1 /\ ad_trace[j - 1].ev = "delay"

\* C16: scrape_bbc makes exactly one author page fetch per entry;
\* scrape_independent and scrape_sky_news make one exactly for the entries
\* whose feed author is absent or empty after trimming and otherwise keep
\* the feed author; scrape_guardian makes none and takes the byline.
C16_FetchPolicy ==
    AdDone =>
        \A k \in DOMAIN ad_entries :
            LET feedAuthor == IF ad_entries[k].author = <<>> THEN <<>>
                              ELSE ad_entries[k].author[1]
                n == Cardinality(PageCalls(k))
            IN CASE ad_src = "BBC News"     -> n = 1
                 [] ad_src = "The Guardian" ->
                        n = 0 /\ ad_ret[k].author = Strip(feedAuthor)
                 [] OTHER ->
                        IF Strip(feedAuthor) = <<>> THEN n = 1
                        ELSE n = 0 /\ ad_ret[k].author = feedAuthor

C16_Witness ==
    /\ AdDone /\ ad_src = "Sky News" /\ Len(ad_entries) = 2
    /\ ad_entries[1].author = << << " " >> >> /\ Cardinality(PageCalls(1)) = 1
    /\ ad_entries[2].author # <<>> /\ ad_ret[2].author = ad_entries[2].author[1]
    /\ ad_ret[2].author # <<>> /\ PageCalls(2) = {}

\* C17: an adapter executes exactly one delay per article it returns,
\* whether or not a page fetch was made or succeeded; none when the listing
\* is empty or the Guardian API request fails.
C17_OneDelayPerArticle ==
    AdDone =>
        /\ Cardinality(EventsAt("delay")) = Len(ad_ret)
        /\ \A k \in DOMAIN ad_ret :
              Cardinality({ j \in EventsAt("delay") : ad_trace[j].k = k }) = 1
        /\ (ad_entries = <<>> \/ ListingFailed) => EventsAt("delay") = {}

C17_Witness ==
    /\ AdDone /\ ad_src = "The Independent" /\ Len(ad_ret) = 2
    /\ Cardinality(EventsAt("delay")) = 2
    /\ PageCalls(1) = {}
    /\ \E j \in PageCalls(2) : ad_trace[j].res = "failed"

\* the value of an entry's field in the Article: "" for a missing key
FieldOrEmpty(e, key) == IF e[key] = <<>> THEN <<>> ELSE e[key][1]

\* C18: a feed adapter returns exactly one Article per feed entry, in feed
\* order; a failed author page fetch (timeout, HTTP error, network error,
\* empty url) leaves the Article in place with an empty author, and a
\* missing optional field becomes the empty string.
C18_OneArticlePerEntry ==
    (ad_pc = "done" /\ ad_src \in FeedSources) =>
        /\ ad_raised = ""
        /\ Len(ad_ret) = Len(ad_entries)
        /\ \A k \in DOMAIN ad_entries :
            LET e == ad_entries[k] IN
            /\ ad_ret[k].source = ad_src
            /\ ad_ret[k].title = Strip(FieldOrEmpty(e, "title"))
            /\ ad_ret[k].url = Strip(FieldOrEmpty(e, "link"))
            /\ ad_ret[k].summary = strip_html(FieldOrEmpty(e, "summary"))
            /\ ad_ret[k].published_date = parse_date(FieldOrEmpty(e, "published"))
            /\ (\E j \in PageCalls(k) : ad_trace[j].res \in { "failed", "no_url" })
                    => ad_ret[k].author = <<>>

C18_Witness ==
    /\ ad_pc = "done" /\ ad_src = "BBC News" /\ Len(ad_ret) = 2
    /\ \E j \in PageCalls(1) : ad_trace[j].res = "failed"
    /\ \E j \in PageCalls(2) : ad_trace[j].res = "no_url"
    /\ ad_entries[2].title = <<>> /\ ad_ret[2].title = <<>>
    /\ ad_ret[1].author = <<>> /\ ad_ret[1].title # <<>>

\* C19: a failure at the level of an adapter shows as zero articles and is
\* never propagated: scrape_guardian returns [] when its API request times
\* out, answers an error status, fails on the network or carries no valid
\* JSON, and a feed adapter returns a list when its feed cannot be fetched
\* or parsed.
C19_FailureIsEmptyList ==
    ad_pc = "done" =>
        /\ ad_raised = ""
        /\ ListingFailed => ad_ret = <<>>

C19_Witness ==
    /\ ad_pc = "done" /\ ad_src = "The Guardian"
    /\ ad_trace = << Ev("listing", 0, "JSONDecodeError") >>
    /\ ad_ret = <<>> /\ ad_raised = ""


(***************************************************************************)
(* Properties of the HTTP server (specification SpecServer).               *)
(***************************************************************************)
\* the articles the adapters returned during a handler's own run
OwnArticles(hd) == Flatten([ i \in DOMAIN hd.got |-> hd.got[i].list ])

Logged(id) == \E l \in DOMAIN sv_log : sv_log[l].id = id

\* C13: the handler answers every GET with exactly one JSON response:
\* /health with 200 {"status": "ok"} and no adapter run; /run with 200 and
\* the envelope when the run succeeds and with 500 {"error": ...} when it
\* fails, no exception leaving the handler; any other path with 404 and no
\* adapter run.
C13_OneJsonResponse ==
    /\ \A l \in DOMAIN sv_log : Len(sv_log[l].codes) = 1
    /\ \A id \in Active :
        LET hd == sv_handlers[id] IN
        /\ hd.raised = ""
        /\ Len(hd.out) = (IF hd.pc = "finish" THEN 1 ELSE 0)
        /\ hd.pc = "finish" =>
            CASE hd.path = "/health" ->
                    /\ hd.out[1] = [code |-> 200, payload |-> [status |-> "ok"]]
                    /\ hd.got = <<>>
              [] hd.path = "/run" ->
                    /\ Len(hd.got) = Len(scrapers)
                    /\ IF OwnArticles(hd) = <<>>
                       THEN hd.out[1] = [code |-> 500, payload |-> [error |-> NoDataError]]
                       ELSE hd.out[1] = [code    |-> 200,
                                         payload |-> Envelope(OwnArticles(hd), hd.session)]
              [] OTHER ->
                    /\ hd.out[1] = [code |-> 404, payload |-> [error |-> NotFoundError]]
                    /\ hd.got = <<>>

C13_Witness ==
    /\ sv_log = << [id |-> 1, path |-> "/run", codes |-> << 500 >>] >>
    /\ 2 \in Active /\ sv_handlers[2].path = "/status" /\ sv_handlers[2].pc = "finish"
    /\ sv_handlers[2].out[1].code = 404

\* C14: runs share no article state: the envelope of a run counts and
\* renders the articles its own adapters returned and nothing else, whatever
\* earlier runs collected.
C14_RunsShareNothing ==
    \A id \in Active :
        LET hd  == sv_handlers[id]
            own == OwnArticles(hd)
        IN (hd.pc = "finish" /\ hd.path = "/run" /\ hd.raised = "") =>
            /\ hd.all_articles = own
            /\ own = <<>> => hd.out[1].code = 500
            /\ own # <<>> =>
                /\ hd.out[1].code = 200
                /\ hd.out[1].payload.articles = Len(own)
                /\ LET html   == hd.out[1].payload.htmlBody
                       blocks == Blocks(html)
                   IN /\ Cardinality(Positions(html, TitleOpen)) = Len(own)
                      /\ Len(blocks) = Cardinality(SourcesOf(own))
                      /\ \A b \in DOMAIN blocks :
                            LET mine == SelectSeq(own, LAMBDA a : a.source = blocks[b].source)
                            IN blocks[b].titles = [ k \in DOMAIN mine |-> mine[k].title ]

C14_Witness ==
    /\ sv_log = << [id |-> 1, path |-> "/run", codes |-> << 200 >>] >>
    /\ 2 \in Active /\ sv_handlers[2].path = "/run" /\ sv_handlers[2].pc = "finish"
    /\ Len(OwnArticles(sv_handlers[2])) = 1
    /\ sv_handlers[2].out[1].payload.articles = 1
    /\ sv_handlers[2].got[1].st = "raised"

\* C20: the server handles one request at a time: a request is being
\* handled only when every request sent before it has been answered and
\* closed, so two runs never interleave and a /health sent during a run is
\* answered after that run.
C20_OneAtATime ==
    /\ \A id \in Active :
        /\ \A j \in 1..(id - 1) : Logged(j)
        /\ \A j \in sv_handlers[id].busy : Logged(j)
    /\ \A l \in DOMAIN sv_log : sv_log[l].id = l

C20_Witness ==
    /\ sv_log = << [id |-> 1, path |-> "/run", codes |-> << 200 >>] >>
    /\ 2 \in Active /\ sv_handlers[2].path = "/health" /\ sv_handlers[2].busy = { 1 }
    /\ sv_handlers[2].pc = "finish" /\ sv_handlers[2].out[1].code = 200


(***************************************************************************)
(* The envelope's count against the digest's rows (specification Spec).    *)
(***************************************************************************)
\* the article rows of an e-mail fragment
DigestRows(html) == Cardinality(Positions(html, TitleOpen))

\* C21: in a successful run the envelope's "articles" is the number of
\* articles collected from all adapters before the cap per source: it is at
\* least the number of article rows of htmlBody, and equal to it exactly
\* when no source contributed more than 10 articles.
C21_CountBeforeCap ==
    (pc = "done" /\ Webhook /\ Len(envelope) = 1) =>
        LET env  == envelope[1]
            rows == DigestRows(env.htmlBody)
        IN /\ env.articles = SeqSum(ReturnedLengths)
           /\ env.articles >= rows
           /\ (env.articles = rows) <=> (\A i \in Adapters : ReturnedLengths[i] <= 10)

C21_Witness ==
    /\ pc = "done" /\ prog = "scraper_server.run_scraper" /\ Len(envelope) = 1
    /\ ReturnedLengths = << TopN + 1, 2, 0, 0 >>
    /\ envelope[1].articles = TopN + 3
    /\ DigestRows(envelope[1].htmlBody) = TopN + 2

====
